---- MODULE Spec2Model ----
(***************************************************************************)
(* Demand-response planning engine (backend/app/agents/planner.py).        *)
(*                                                                         *)
(* Python floats are modelled as exact rationals <<n, d>> in lowest terms  *)
(* with d > 0; round(x, k) is round-half-to-even on the exact value.       *)
(* Optional[T] is modelled as a sequence: <<>> is None, <<v>> is a value.  *)
(* Datetimes are whole hours since midnight of day 0 (UTC); .hour is the   *)
(* value modulo 24.  A datetime parsed without an offset is "naive".       *)
(***************************************************************************)
EXTENDS Integers, Sequences, FiniteSets, TLC

VARIABLES
    files,          \* data/ercot/*.json and data/cohorts/cohorts.json
    now,            \* the wall clock, datetime.now(timezone.utc)
    pc,             \* position of the create_plan invocation
    req,            \* arguments of create_plan
    cohorts,        \* local: the (filtered) cohort catalog
    situation,      \* local: result of _analyze_situation
    target_mw,      \* local: the target, supplied or derived
    derived,        \* whether _calculate_target_mw was called
    scored,         \* local of _score_cohorts
    idx,            \* loop position in _score_cohorts / _allocate_mw
    hours_notice,   \* values of the local hours_notice, one per iteration
    allocations,    \* local of _allocate_mw
    allocated_mw,   \* local of _allocate_mw
    plan,           \* the returned plan
    exc,            \* the exception raised by create_plan
    other,          \* the locals of a second invocation that is not running
    plans,          \* data/plans/{id}.json
    signals,        \* data/signals/{id}.json
    response        \* the outcome of the last router request

vars == <<files, now, pc, req, cohorts, situation, target_mw, derived,
          scored, idx, hours_notice, allocations, allocated_mw, plan, exc,
          other, plans, signals, response>>

(* what a step of one create_plan invocation cannot reach *)
outside == <<other, plans, signals, response>>

----------------------------------------------------------------------------
(* Bounds of the model *)

MaxCohorts == 2
ClockStart == 15
MaxTicks == 1

----------------------------------------------------------------------------
(* Optional values *)

None == <<>>
Some(v) == <<v>>
IsNone(o) == Len(o) = 0
Val(o) == o[1]

----------------------------------------------------------------------------
(* Exact arithmetic standing for Python float arithmetic *)

Abs(n) == IF n < 0 THEN -n ELSE n

RECURSIVE GCD(_, _)
GCD(a, b) == IF b = 0 THEN a ELSE GCD(b, a % b)

Q(n, d) ==
    LET g == GCD(Abs(n), Abs(d))
        s == IF d < 0 THEN -1 ELSE 1
    IN  <<(s * n) \div g, (s * d) \div g>>

QInt(k) == <<k, 1>>
QAdd(a, b) == Q(a[1] * b[2] + b[1] * a[2], a[2] * b[2])
QSub(a, b) == Q(a[1] * b[2] - b[1] * a[2], a[2] * b[2])
QMul(a, b) == Q(a[1] * b[1], a[2] * b[2])
QDivInt(a, k) == Q(a[1], a[2] * k)
QLt(a, b) == a[1] * b[2] < b[1] * a[2]
QLe(a, b) == a[1] * b[2] <= b[1] * a[2]
QMin(a, b) == IF QLe(a, b) THEN a ELSE b
QMax(a, b) == IF QLe(a, b) THEN b ELSE a

RECURSIVE Pow10(_)
Pow10(k) == IF k = 0 THEN 1 ELSE 10 * Pow10(k - 1)

(* round(x, digits): nearest multiple of 10^-digits, ties to even *)
Round(x, digits) ==
    LET scale == Pow10(digits)
        num == x[1] * scale
        f == num \div x[2]
        r == num % x[2]
        k == IF 2 * r < x[2] THEN f
             ELSE IF 2 * r > x[2] THEN f + 1
             ELSE IF f % 2 = 0 THEN f ELSE f + 1
    IN  Q(k, scale)

RECURSIVE QSum(_)
QSum(s) == IF s = <<>> THEN QInt(0) ELSE QAdd(Head(s), QSum(Tail(s)))

(* [a[field] for a in s] *)
Column(s, field) == [i \in 1..Len(s) |-> s[i][field]]

----------------------------------------------------------------------------
(* Input data: strategies, cohort records, grid files, requests *)

DRStrategy == {"cost_minimize", "reliability", "balanced", "emergency"}

CohortEV ==
    [id |-> "ev", name |-> "EV owners", segment |-> "residential_ev",
     num_accounts |-> 40000, flex_kw_per_account |-> Q(5, 2),
     peak_hours |-> {18, 19, 20}, baseline_acceptance_rate |-> Q(4, 5),
     comfort_limit_f |-> 2, min_notice_hours |-> 1]

CohortHVAC ==
    [id |-> "hvac", name |-> "Office HVAC", segment |-> "commercial_hvac",
     num_accounts |-> 500, flex_kw_per_account |-> QInt(200),
     peak_hours |-> {16, 17, 18, 19}, baseline_acceptance_rate |-> Q(2, 5),
     comfort_limit_f |-> 3, min_notice_hours |-> 2]

CohortIndustrial ==
    [id |-> "ind", name |-> "Smelters", segment |-> "industrial",
     num_accounts |-> 10, flex_kw_per_account |-> QInt(6000),
     peak_hours |-> {17, 18, 19}, baseline_acceptance_rate |-> QInt(1),
     comfort_limit_f |-> 0, min_notice_hours |-> 48]

CohortPool == {CohortEV, CohortHVAC, CohortIndustrial}

RECURSIVE Catalogs(_)
Catalogs(n) ==
    IF n = 0 THEN {<<>>}
    ELSE LET shorter == Catalogs(n - 1)
         IN  shorter \cup
             {Append(c, x) : c \in {s \in shorter : Len(s) = n - 1},
                             x \in CohortPool}

Distinct(c) == \A i, j \in 1..Len(c) : c[i].id = c[j].id => i = j

CatalogFiles == {Some(c) : c \in {s \in Catalogs(MaxCohorts) : Distinct(s)}}
                    \cup {None}

SnapshotFiles ==
    {None,
     Some(<<>>),
     Some([reserves_mw |-> 12000]),
     Some([system_load_mw |-> 72000, reserves_mw |-> 6000, price_per_mwh |-> 60]),
     Some([system_load_mw |-> 76000, reserves_mw |-> 4000, price_per_mwh |-> 120])}

ForecastFiles ==
    {None,
     Some(<<>>),
     Some([peak_load_mw |-> 76000, peak_hour |-> 18])}

WindowStarts == {ClockStart + 2, ClockStart + 3}
WindowEnds == {ClockStart + 1, ClockStart + 3, ClockStart + 4}

TargetChoices == {None, Some(QInt(0)), Some(QInt(40)), Some(QInt(-10))}

SelectedChoices == {None, Some(<<>>), Some(<<"ev">>)}

Requests ==
    [window_start : WindowStarts, window_end : WindowEnds, aware : BOOLEAN,
     strategy : DRStrategy, target_mw : TargetChoices,
     selected_cohorts : SelectedChoices]

Hour(t) == t % 24

Get(d, k, default) == IF k \in DOMAIN d THEN d[k] ELSE default

----------------------------------------------------------------------------
(* _load_ercot_data, _load_cohorts *)

(* faulty variant: an unavailable source is replaced by empty documents *)
LoadErcotDataDefaults(fs) ==
    [snapshot |-> IF IsNone(fs.snapshot) THEN <<>> ELSE Val(fs.snapshot),
     forecast |-> IF IsNone(fs.forecast) THEN <<>> ELSE Val(fs.forecast)]

LoadErcotData(fs) ==
    IF IsNone(fs.snapshot) \/ IsNone(fs.forecast)
    THEN [error |-> "ERCOT data not available",
          note |-> "Real ERCOT data files not found"]
    ELSE [snapshot |-> Val(fs.snapshot), forecast |-> Val(fs.forecast)]

LoadCohorts(fs) == IF IsNone(fs.cohorts) THEN <<>> ELSE Val(fs.cohorts)

(* Python truthiness of an Optional[float] / Optional[List[str]] *)
TruthyNumber(o) == ~IsNone(o) /\ Val(o) # QInt(0)
TruthyList(o) == ~IsNone(o) /\ Len(Val(o)) > 0

InList(x, l) == \E i \in 1..Len(l) : l[i] = x

RECURSIVE FilterSelected(_, _)
FilterSelected(cs, sel) ==
    IF cs = <<>> THEN <<>>
    ELSE IF InList(Head(cs).id, sel)
         THEN <<Head(cs)>> \o FilterSelected(Tail(cs), sel)
         ELSE FilterSelected(Tail(cs), sel)

SelectCohorts(cs, selected) ==
    IF TruthyList(selected) THEN FilterSelected(cs, Val(selected)) ELSE cs

----------------------------------------------------------------------------
(* _calculate_stress_level, _analyze_situation, _calculate_target_mw *)

(* faulty variant: a boundary value falls into the more severe class *)
CalculateStressLevelInclusive(snapshot, forecast) ==
    LET load == Get(snapshot, "system_load_mw", 65000)
        reserves == Get(snapshot, "reserves_mw", 15000)
    IN  IF reserves <= 5000 \/ load >= 75000 THEN "critical"
        ELSE IF reserves <= 10000 \/ load >= 70000 THEN "high"
        ELSE IF reserves <= 15000 \/ load >= 65000 THEN "moderate"
        ELSE "low"

(* faulty variant: the load comparison of the "high" rule is reversed *)
CalculateStressLevelFlipped(snapshot, forecast) ==
    LET load == Get(snapshot, "system_load_mw", 65000)
        reserves == Get(snapshot, "reserves_mw", 15000)
    IN  IF reserves < 5000 \/ load > 75000 THEN "critical"
        ELSE IF reserves < 10000 \/ load < 70000 THEN "high"
        ELSE IF reserves < 15000 \/ load > 65000 THEN "moderate"
        ELSE "low"

(* faulty variant: a missing field counts as 0 in the stress calculation *)
CalculateStressLevelNoDefaults(snapshot, forecast) ==
    LET load == Get(snapshot, "system_load_mw", 0)
        reserves == Get(snapshot, "reserves_mw", 0)
    IN  IF reserves < 5000 \/ load > 75000 THEN "critical"
        ELSE IF reserves < 10000 \/ load > 70000 THEN "high"
        ELSE IF reserves < 15000 \/ load > 65000 THEN "moderate"
        ELSE "low"

CalculateStressLevel(snapshot, forecast) ==
    LET load == Get(snapshot, "system_load_mw", 65000)
        reserves == Get(snapshot, "reserves_mw", 15000)
    IN  IF reserves < 5000 \/ load > 75000 THEN "critical"
        ELSE IF reserves < 10000 \/ load > 70000 THEN "high"
        ELSE IF reserves < 15000 \/ load > 65000 THEN "moderate"
        ELSE "low"

(* faulty variant: the window is open at both ends *)
AnalyzeSituationExclusive(ed, window_start, window_end) ==
    LET snapshot == ed.snapshot
        forecast == ed.forecast
    IN  [current_load_mw |-> Get(snapshot, "system_load_mw", 65000),
         current_price |-> Get(snapshot, "price_per_mwh", 45),
         reserves_mw |-> Get(snapshot, "reserves_mw", 15000),
         forecast_peak_mw |-> Get(forecast, "peak_load_mw", 72000),
         forecast_peak_hour |-> Get(forecast, "peak_hour", 17),
         window_overlaps_peak |->
             (Get(forecast, "peak_hour", 17) > Hour(window_start)
              /\ Get(forecast, "peak_hour", 17) < Hour(window_end)),
         stress_level |-> CalculateStressLevel(snapshot, forecast)]

AnalyzeSituation(ed, window_start, window_end) ==
    LET snapshot == ed.snapshot
        forecast == ed.forecast
    IN  [current_load_mw |-> Get(snapshot, "system_load_mw", 65000),
         current_price |-> Get(snapshot, "price_per_mwh", 45),
         reserves_mw |-> Get(snapshot, "reserves_mw", 15000),
         forecast_peak_mw |-> Get(forecast, "peak_load_mw", 72000),
         forecast_peak_hour |-> Get(forecast, "peak_hour", 17),
         window_overlaps_peak |->
             (Get(forecast, "peak_hour", 17) >= Hour(window_start)
              /\ Get(forecast, "peak_hour", 17) <= Hour(window_end)),
         stress_level |-> CalculateStressLevel(snapshot, forecast)]

BaseTarget == 50

(* faulty variant: the price thresholds are inclusive *)
CalculateTargetMwPriceInclusive(sit, strategy) ==
    LET base_target == QInt(BaseTarget)
    IN  IF strategy = "emergency" THEN QMul(base_target, QInt(3))
        ELSE IF strategy = "reliability" THEN
            IF sit.stress_level = "critical" THEN QMul(base_target, Q(5, 2))
            ELSE IF sit.stress_level = "high" THEN QMul(base_target, QInt(2))
            ELSE QMul(base_target, Q(3, 2))
        ELSE IF strategy = "cost_minimize" THEN
            IF sit.current_price >= 100 THEN QMul(base_target, QInt(2))
            ELSE IF sit.current_price >= 50 THEN QMul(base_target, Q(3, 2))
            ELSE base_target
        ELSE QMul(base_target, Q(3, 2))

(* faulty variant: the emergency target follows the stress level *)
CalculateTargetMwEmergencyByStress(sit, strategy) ==
    LET base_target == QInt(BaseTarget)
    IN  IF strategy = "emergency" THEN
            IF sit.stress_level = "critical" THEN QMul(base_target, QInt(3))
            ELSE QMul(base_target, Q(5, 2))
        ELSE IF strategy = "reliability" THEN
            IF sit.stress_level = "critical" THEN QMul(base_target, Q(5, 2))
            ELSE IF sit.stress_level = "high" THEN QMul(base_target, QInt(2))
            ELSE QMul(base_target, Q(3, 2))
        ELSE IF strategy = "cost_minimize" THEN
            IF sit.current_price > 100 THEN QMul(base_target, QInt(2))
            ELSE IF sit.current_price > 50 THEN QMul(base_target, Q(3, 2))
            ELSE base_target
        ELSE QMul(base_target, Q(3, 2))

CalculateTargetMw(sit, strategy) ==
    LET base_target == QInt(BaseTarget)
    IN  IF strategy = "emergency" THEN QMul(base_target, QInt(3))
        ELSE IF strategy = "reliability" THEN
            IF sit.stress_level = "critical" THEN QMul(base_target, Q(5, 2))
            ELSE IF sit.stress_level = "high" THEN QMul(base_target, QInt(2))
            ELSE QMul(base_target, Q(3, 2))
        ELSE IF strategy = "cost_minimize" THEN
            IF sit.current_price > 100 THEN QMul(base_target, QInt(2))
            ELSE IF sit.current_price > 50 THEN QMul(base_target, Q(3, 2))
            ELSE base_target
        ELSE QMul(base_target, Q(3, 2))

----------------------------------------------------------------------------
(* _score_cohorts: one iteration of the loop, and the final sort *)

HoursNotice(window_start, clock) == window_start - clock

(* faulty variant: a cohort with exactly the required notice is skipped *)
SkipsCohortAtBoundary(hours, cohort) == hours <= cohort.min_notice_hours

SkipsCohort(hours, cohort) == hours < cohort.min_notice_hours

WindowHours(window_start, window_end) ==
    {h \in 0..23 : Hour(window_start) <= h /\ h <= Hour(window_end)}

PeakAlignment(cohort, window_start, window_end) ==
    LET window_hours == WindowHours(window_start, window_end)
        peak_overlap == Cardinality(window_hours \cap cohort.peak_hours)
    IN  IF window_hours # {} THEN Q(peak_overlap, Cardinality(window_hours))
        ELSE QInt(0)

FlexMw(cohort) ==
    QDivInt(QMul(QInt(cohort.num_accounts), cohort.flex_kw_per_account), 1000)

StrategyBonus(cohort, strategy) ==
    IF strategy = "cost_minimize" THEN
        IF cohort.segment \in {"commercial_hvac", "commercial_lighting", "industrial"}
        THEN QInt(15) ELSE QInt(0)
    ELSE IF strategy = "reliability" THEN
        QMul(cohort.baseline_acceptance_rate, QInt(15))
    ELSE IF strategy = "emergency" THEN
        IF cohort.min_notice_hours <= 1 THEN QInt(20) ELSE QInt(0)
    ELSE QInt(0)

(* faulty variant: the acceptance rate is left out *)
AvailableMwNoAcceptance(flex_mw, peak_alignment, acceptance) ==
    QMul(flex_mw, peak_alignment)

AvailableMw(flex_mw, peak_alignment, acceptance) ==
    QMul(QMul(flex_mw, peak_alignment), acceptance)

(* faulty variant: the flexible load in MW is written back into the cohort *)
ScoreCohortInPlace(cohort, window_start, window_end, strategy) ==
    LET peak_alignment == PeakAlignment(cohort, window_start, window_end)
        acceptance == cohort.baseline_acceptance_rate
        flex_mw == FlexMw(cohort)
        score == QAdd(QAdd(QAdd(QMul(peak_alignment, QInt(30)),
                                QMul(acceptance, QInt(25))),
                           QMin(QDivInt(flex_mw, 10), QInt(20))),
                      StrategyBonus(cohort, strategy))
    IN  [cohort |-> [cohort EXCEPT !.flex_kw_per_account = flex_mw],
         score |-> score,
         factors |-> [peak_alignment |-> peak_alignment,
                      acceptance |-> acceptance,
                      flex_mw |-> flex_mw],
         available_mw |-> AvailableMw(flex_mw, peak_alignment, acceptance)]

ScoreCohort(cohort, window_start, window_end, strategy) ==
    LET peak_alignment == PeakAlignment(cohort, window_start, window_end)
        acceptance == cohort.baseline_acceptance_rate
        flex_mw == FlexMw(cohort)
        score == QAdd(QAdd(QAdd(QMul(peak_alignment, QInt(30)),
                                QMul(acceptance, QInt(25))),
                           QMin(QDivInt(flex_mw, 10), QInt(20))),
                      StrategyBonus(cohort, strategy))
    IN  [cohort |-> cohort,
         score |-> score,
         factors |-> [peak_alignment |-> peak_alignment,
                      acceptance |-> acceptance,
                      flex_mw |-> flex_mw],
         available_mw |-> AvailableMw(flex_mw, peak_alignment, acceptance)]

(* faulty variant: an element is placed before the elements of equal score *)
RECURSIVE InsertBeforeEqual(_, _)
InsertBeforeEqual(sorted, e) ==
    IF sorted = <<>> THEN <<e>>
    ELSE IF QLe(Head(sorted).score, e.score) THEN <<e>> \o sorted
    ELSE <<Head(sorted)>> \o InsertBeforeEqual(Tail(sorted), e)

(* list.sort(key=score, reverse=True) is stable: equal scores keep input order *)
RECURSIVE InsertByScore(_, _)
InsertByScore(sorted, e) ==
    IF sorted = <<>> THEN <<e>>
    ELSE IF QLt(Head(sorted).score, e.score) THEN <<e>> \o sorted
    ELSE <<Head(sorted)>> \o InsertByScore(Tail(sorted), e)

RECURSIVE SortByScore(_)
SortByScore(s) ==
    IF s = <<>> THEN <<>>
    ELSE InsertByScore(SortByScore(SubSeq(s, 1, Len(s) - 1)), s[Len(s)])

----------------------------------------------------------------------------
(* _allocate_mw: one iteration of the loop *)

BalancedShare == Q(3, 10)

(* faulty variant: the remaining need is ignored *)
AllocateAmountAvailable(available, target, allocated, strategy) ==
    IF strategy = "balanced"
    THEN QMin(available, QMul(target, BalancedShare))
    ELSE available

(* faulty variant: the balanced cap is not applied *)
AllocateAmountNoCap(available, target, allocated, strategy) ==
    QMin(available, QSub(target, allocated))

(* faulty variant: the balanced cap is 30% of what is still needed *)
AllocateAmountCapOnNeeded(available, target, allocated, strategy) ==
    LET needed == QSub(target, allocated)
        allocate == QMin(available, needed)
    IN  IF strategy = "balanced"
        THEN QMin(allocate, QMul(needed, BalancedShare))
        ELSE allocate

AllocateAmount(available, target, allocated, strategy) ==
    LET needed == QSub(target, allocated)
        allocate == QMin(available, needed)
    IN  IF strategy = "balanced"
        THEN QMin(allocate, QMul(target, BalancedShare))
        ELSE allocate

(* faulty variant: the prediction is taken from the cohort's whole flexible load *)
PredictedMwFromFlex(allocate, cohort) ==
    QMul(QDivInt(QMul(QInt(cohort.num_accounts), cohort.flex_kw_per_account), 1000),
         cohort.baseline_acceptance_rate)

PredictedMw(allocate, cohort) == QMul(allocate, cohort.baseline_acceptance_rate)

GenerateMessage(cohort, mw) ==
    LET keys == <<"residential_ev", "residential_solar", "commercial_hvac", "industrial">>
        hits == {i \in 1..Len(keys) : keys[i] = cohort.segment}
    IN  [template |-> IF hits = {} THEN "generic"
                      ELSE keys[CHOOSE i \in hits : \A j \in hits : i <= j],
         mw |-> Round(mw, 1)]

Allocation(sc, allocate) ==
    [cohort_id |-> sc.cohort.id,
     cohort_name |-> sc.cohort.name,
     target_mw |-> Round(allocate, 2),
     predicted_mw |-> Round(PredictedMw(allocate, sc.cohort), 2),
     acceptance_probability |->
         Round(QMul(sc.cohort.baseline_acceptance_rate, sc.factors.peak_alignment), 3),
     num_accounts |-> sc.cohort.num_accounts,
     message_template |-> GenerateMessage(sc.cohort, allocate)]

----------------------------------------------------------------------------
(* _calculate_confidence, _get_applied_constraints, _generate_explanation *)

(* faulty variant: the situational base is left out of the blend *)
CalculateConfidenceAcceptanceOnly(allocs, sit) ==
    IF allocs = <<>> THEN QInt(0)
    ELSE Round(QMin(QMax(QDivInt(QSum(Column(allocs, "acceptance_probability")), Len(allocs)),
                         QInt(0)), QInt(1)), 3)

CalculateConfidence(allocs, sit) ==
    IF allocs = <<>> THEN QInt(0)
    ELSE LET base == Q(7, 10)
             adjusted == IF sit.stress_level = "low" THEN QAdd(base, Q(1, 10))
                         ELSE IF sit.stress_level = "critical" THEN QSub(base, Q(1, 10))
                         ELSE base
             avg_acceptance == QDivInt(QSum(Column(allocs, "acceptance_probability")), Len(allocs))
             confidence == QAdd(QMul(adjusted, Q(7, 10)), QMul(avg_acceptance, Q(3, 10)))
         IN  Round(QMin(QMax(confidence, QInt(0)), QInt(1)), 3)

GetAppliedConstraints(window_start, clock) ==
    (IF HoursNotice(window_start, clock) < 4 THEN <<"Short notice period">> ELSE <<>>)
    \o (IF Hour(window_start) >= 17 /\ Hour(window_start) <= 20
        THEN <<"Peak hour window">> ELSE <<>>)
    \o <<"Customer comfort limits enforced", "Max weekly events checked">>

GenerateExplanation(strategy, allocs, sit, confidence) ==
    <<"Strategy", "System stress level", "Targeting">>
    \o (IF sit.window_overlaps_peak THEN <<"Window overlaps">> ELSE <<>>)
    \o <<"Confidence level">>
    \o (IF strategy = "cost_minimize" THEN <<"Current price">>
        ELSE IF strategy = "reliability" THEN <<"Reserve margin">>
        ELSE IF strategy = "emergency" THEN <<"EMERGENCY MODE">>
        ELSE <<>>)

(* f"DR_{now:%Y%m%d_%H%M%S}": a string, kept as its parts *)
PlanId(clock) == <<"DR", ToString(clock)>>

AssemblePlan(r, clock, target, allocs, sit) ==
    LET confidence == CalculateConfidence(allocs, sit)
    IN  [id |-> PlanId(clock),
         created_at |-> clock,
         window_start |-> r.window_start,
         window_end |-> r.window_end,
         strategy |-> r.strategy,
         status |-> "proposed",
         target_mw_total |-> target,
         predicted_mw_total |-> QSum(Column(allocs, "predicted_mw")),
         cohort_allocations |-> allocs,
         confidence_score |-> confidence,
         constraints_applied |-> GetAppliedConstraints(r.window_start, clock),
         explanation |-> GenerateExplanation(r.strategy, allocs, sit, confidence),
         situation_summary |-> sit]

----------------------------------------------------------------------------
(* The state machine *)

(* the local variables of create_plan and of the methods it calls *)
Locals ==
    [pc |-> pc, req |-> req, cohorts |-> cohorts, situation |-> situation,
     target_mw |-> target_mw, derived |-> derived, scored |-> scored,
     idx |-> idx, hours_notice |-> hours_notice, allocations |-> allocations,
     allocated_mw |-> allocated_mw, plan |-> plan, exc |-> exc]

IdleLocals ==
    [pc |-> "idle", req |-> None, cohorts |-> <<>>, situation |-> None,
     target_mw |-> None, derived |-> FALSE, scored |-> <<>>,
     idx |-> 0, hours_notice |-> <<>>, allocations |-> <<>>,
     allocated_mw |-> QInt(0), plan |-> None, exc |-> None]

EmptyDir == <<>>

InitCall ==
    /\ now = ClockStart
    /\ pc = "idle"
    /\ req = None
    /\ cohorts = <<>>
    /\ situation = None
    /\ target_mw = None
    /\ derived = FALSE
    /\ scored = <<>>
    /\ idx = 0
    /\ hours_notice = <<>>
    /\ allocations = <<>>
    /\ allocated_mw = QInt(0)
    /\ plan = None
    /\ exc = None
    /\ other = IdleLocals
    /\ plans = EmptyDir
    /\ signals = EmptyDir
    /\ response = None

Init ==
    /\ files \in [snapshot : SnapshotFiles, forecast : ForecastFiles,
                  cohorts : CatalogFiles]
    /\ InitCall

Raise(e) ==
    /\ pc' = "raised"
    /\ exc' = Some(e)

(* create_plan, lines 26-39: load, filter, analyze, determine the target *)
CreatePlan(r) ==
    /\ pc = "idle"
    /\ req' = Some(r)
    /\ cohorts' = SelectCohorts(LoadCohorts(files), r.selected_cohorts)
    /\ LET ed == LoadErcotData(files)
       IN  IF "snapshot" \notin DOMAIN ed
           THEN /\ Raise("KeyError")
                /\ UNCHANGED <<situation, target_mw, derived, idx>>
           ELSE LET sit == AnalyzeSituation(ed, r.window_start, r.window_end)
                IN  /\ situation' = Some(sit)
                    /\ derived' = ~TruthyNumber(r.target_mw)
                    /\ target_mw' = IF TruthyNumber(r.target_mw) THEN r.target_mw
                                    ELSE Some(CalculateTargetMw(sit, r.strategy))
                    /\ pc' = "score"
                    /\ idx' = 1
                    /\ UNCHANGED exc
    /\ UNCHANGED <<files, now, scored, hours_notice, allocations, allocated_mw, plan>>
    /\ UNCHANGED outside

(* _score_cohorts, lines 173-215: one cohort *)
ScoreStep ==
    /\ pc = "score"
    /\ idx <= Len(cohorts)
    /\ IF ~Val(req).aware
       THEN /\ Raise("TypeError")
            /\ UNCHANGED <<scored, idx, hours_notice>>
       ELSE LET hours == HoursNotice(Val(req).window_start, now)
                cohort == cohorts[idx]
            IN  /\ hours_notice' = Append(hours_notice, hours)
                /\ idx' = idx + 1
                /\ scored' = IF SkipsCohort(hours, cohort) THEN scored
                             ELSE Append(scored,
                                         ScoreCohort(cohort, Val(req).window_start,
                                                     Val(req).window_end,
                                                     Val(req).strategy))
                /\ UNCHANGED <<pc, exc>>
    /\ UNCHANGED <<files, now, req, cohorts, situation, target_mw, derived,
                   allocations, allocated_mw, plan>>
    /\ UNCHANGED outside

(* _score_cohorts, lines 217-219, and _allocate_mw, lines 228-229 *)
ScoreSort ==
    /\ pc = "score"
    /\ idx > Len(cohorts)
    /\ scored' = SortByScore(scored)
    /\ pc' = "allocate"
    /\ idx' = 1
    /\ allocations' = <<>>
    /\ allocated_mw' = QInt(0)
    /\ UNCHANGED <<files, now, req, cohorts, situation, target_mw, derived,
                   hours_notice, plan, exc>>
    /\ UNCHANGED outside

(* faulty variant: the loop has no break *)
LoopEndedAtListEnd == idx > Len(scored)

LoopEnded == idx > Len(scored) \/ QLe(Val(target_mw), allocated_mw)

(* _allocate_mw, lines 231-264: one scored cohort *)
AllocateStep ==
    /\ pc = "allocate"
    /\ ~LoopEnded
    /\ LET sc == scored[idx]
           allocate == AllocateAmount(sc.available_mw, Val(target_mw),
                                      allocated_mw, Val(req).strategy)
       IN  /\ allocations' = Append(allocations, Allocation(sc, allocate))
           /\ allocated_mw' = QAdd(allocated_mw, allocate)
    /\ idx' = idx + 1
    /\ UNCHANGED <<files, now, pc, req, cohorts, situation, target_mw, derived,
                   scored, hours_notice, plan, exc>>
    /\ UNCHANGED outside

(* create_plan, lines 49-71: confidence, constraints, explanation, the plan *)
Finish ==
    /\ pc = "allocate"
    /\ LoopEnded
    /\ IF ~Val(req).aware
       THEN /\ Raise("TypeError")
            /\ UNCHANGED plan
       ELSE /\ plan' = Some(AssemblePlan(Val(req), now, Val(target_mw),
                                         allocations, Val(situation)))
            /\ pc' = "returned"
            /\ UNCHANGED exc
    /\ UNCHANGED <<files, now, req, cohorts, situation, target_mw, derived,
                   scored, idx, hours_notice, allocations, allocated_mw>>
    /\ UNCHANGED outside

(* the clock advances while the call runs *)
Tick ==
    /\ pc \in {"score", "allocate"}
    /\ now < ClockStart + MaxTicks
    /\ now' = now + 1
    /\ UNCHANGED <<files, pc, req, cohorts, situation, target_mw, derived,
                   scored, idx, hours_notice, allocations, allocated_mw, plan, exc>>
    /\ UNCHANGED outside

Next ==
    \/ \E r \in Requests : CreatePlan(r)
    \/ ScoreStep
    \/ ScoreSort
    \/ AllocateStep
    \/ Finish
    \/ Tick

Spec == Init /\ [][Next]_vars

----------------------------------------------------------------------------
(* The analyzer and the target derivation over a grid of snapshots: every
   threshold of the stress cascade and of the price rule, the values next to
   it, and the example snapshot {load 72000, reserves 6000, price 60}.  The
   cohort catalog is missing, so the scorer and allocator loops are empty. *)

LoadLevels == {60000, 65000, 65001, 70000, 70001, 72000, 75000, 75001}
ReserveLevels == {4999, 5000, 6000, 9999, 10000, 14999, 15000, 20000}
PriceLevels == {45, 50, 51, 60, 100, 101}

GridSnapshots ==
    [system_load_mw : LoadLevels, reserves_mw : ReserveLevels,
     price_per_mwh : PriceLevels]

GridRequests ==
    [window_start : {ClockStart + 2}, window_end : {ClockStart + 4},
     aware : {TRUE}, strategy : DRStrategy,
     target_mw : {None, Some(QInt(40))}, selected_cohorts : {None}]

InitGrid ==
    /\ files \in [snapshot : {Some(g) : g \in GridSnapshots},
                  forecast : {Some(<<>>)}, cohorts : {None}]
    /\ InitCall

NextGrid ==
    \/ \E r \in GridRequests : CreatePlan(r)
    \/ ScoreSort
    \/ Finish

SpecGrid == InitGrid /\ [][NextGrid]_vars

----------------------------------------------------------------------------
(* Two invocations of create_plan.  propose_plan builds a new DRPlanningAgent
   for every request and create_plan keeps everything in local variables, so
   each invocation has its own copy of the locals; the data files and the
   clock are common.  One invocation runs at a time, the other is held in
   `other`; Switch changes which one runs, at any step boundary. *)

(* faulty variant: the running total is one counter for both invocations *)
SwitchSharedTotal ==
    /\ pc' = other.pc
    /\ req' = other.req
    /\ cohorts' = other.cohorts
    /\ situation' = other.situation
    /\ target_mw' = other.target_mw
    /\ derived' = other.derived
    /\ scored' = other.scored
    /\ idx' = other.idx
    /\ hours_notice' = other.hours_notice
    /\ allocations' = other.allocations
    /\ allocated_mw' = allocated_mw
    /\ plan' = other.plan
    /\ exc' = other.exc
    /\ other' = Locals
    /\ UNCHANGED <<files, now, plans, signals, response>>

(* faulty variant: the scored list is one list for both invocations *)
SwitchSharedScored ==
    /\ pc' = other.pc
    /\ req' = other.req
    /\ cohorts' = other.cohorts
    /\ situation' = other.situation
    /\ target_mw' = other.target_mw
    /\ derived' = other.derived
    /\ scored' = scored
    /\ idx' = other.idx
    /\ hours_notice' = other.hours_notice
    /\ allocations' = other.allocations
    /\ allocated_mw' = other.allocated_mw
    /\ plan' = other.plan
    /\ exc' = other.exc
    /\ other' = Locals
    /\ UNCHANGED <<files, now, plans, signals, response>>

Switch ==
    /\ pc' = other.pc
    /\ req' = other.req
    /\ cohorts' = other.cohorts
    /\ situation' = other.situation
    /\ target_mw' = other.target_mw
    /\ derived' = other.derived
    /\ scored' = other.scored
    /\ idx' = other.idx
    /\ hours_notice' = other.hours_notice
    /\ allocations' = other.allocations
    /\ allocated_mw' = other.allocated_mw
    /\ plan' = other.plan
    /\ exc' = other.exc
    /\ other' = Locals
    /\ UNCHANGED <<files, now, plans, signals, response>>

(* the data files of a working installation: snapshot and forecast with all
   their fields, a catalog of MaxCohorts cohorts *)
PairFiles ==
    {f \in [snapshot : SnapshotFiles, forecast : ForecastFiles,
            cohorts : CatalogFiles] :
        /\ ~IsNone(f.snapshot) /\ ~IsNone(f.forecast) /\ ~IsNone(f.cohorts)
        /\ "system_load_mw" \in DOMAIN Val(f.snapshot)
        /\ Val(f.snapshot).system_load_mw = 72000
        /\ "peak_hour" \in DOMAIN Val(f.forecast)
        /\ Len(Val(f.cohorts)) = MaxCohorts}

PairRequests ==
    [window_start : {ClockStart + 2}, window_end : {ClockStart + 4},
     aware : {TRUE}, strategy : {"balanced", "reliability"},
     target_mw : {None, Some(QInt(40))},
     selected_cohorts : {None, Some(<<"ev">>)}]

InitPair ==
    /\ files \in PairFiles
    /\ InitCall

NextPair ==
    \/ \E r \in PairRequests : CreatePlan(r)
    \/ ScoreStep
    \/ ScoreSort
    \/ AllocateStep
    \/ Finish
    \/ Tick
    \/ Switch

SpecPair == InitPair /\ [][NextPair]_vars

(* create_plan run alone, as one function of the files, the arguments and
   the clock values it reads in the scoring loop *)
RECURSIVE ScoreCohorts(_, _, _, _)
ScoreCohorts(cs, r, readings, n) ==
    IF n = 0 THEN <<>>
    ELSE LET before == ScoreCohorts(cs, r, readings, n - 1)
         IN  IF SkipsCohort(readings[n], cs[n]) THEN before
             ELSE Append(before, ScoreCohort(cs[n], r.window_start,
                                             r.window_end, r.strategy))

RECURSIVE AllocateMw(_, _, _, _, _, _)
AllocateMw(sc, target, strategy, k, allocs, total) ==
    IF k > Len(sc) \/ QLe(target, total) THEN allocs
    ELSE LET allocate == AllocateAmount(sc[k].available_mw, target, total, strategy)
         IN  AllocateMw(sc, target, strategy, k + 1,
                        Append(allocs, Allocation(sc[k], allocate)),
                        QAdd(total, allocate))

CreatePlanAlone(fs, r, readings) ==
    LET cs == SelectCohorts(LoadCohorts(fs), r.selected_cohorts)
        sit == AnalyzeSituation(LoadErcotData(fs), r.window_start, r.window_end)
        target == IF TruthyNumber(r.target_mw) THEN Val(r.target_mw)
                  ELSE CalculateTargetMw(sit, r.strategy)
        ranked == SortByScore(ScoreCohorts(cs, r, readings, Len(cs)))
        allocs == AllocateMw(ranked, target, r.strategy, 1, <<>>, QInt(0))
    IN  [cohort_allocations |-> allocs,
         target_mw_total |-> target,
         confidence_score |-> CalculateConfidence(allocs, sit)]

----------------------------------------------------------------------------
(* The plan files: propose saves the plan create_plan returned, approve and
   reject rewrite a stored plan.  A stored plan is the plan dict plus the
   keys approve and reject add; None stands for a key that is absent.  The
   dict holds strings, floats, lists and dicts only, which json.dump and
   json.load give back unchanged.  All requests arrive within one second of the
   clock, so every proposal gets the same id and replaces the stored plan. *)

frame == <<pc, req, cohorts, situation, target_mw, derived, scored, idx,
           hours_notice, allocations, allocated_mw, plan, exc>>

(* the id of the second the requests arrive in, and an id never proposed *)
PlanIds == {PlanId(ClockStart), PlanId(ClockStart - 1)}
Operators == {"alice"}
NotesChoices == {None, Some(""), Some("ok")}
Reasons == {"too costly"}

TruthyString(o) == ~IsNone(o) /\ Val(o) # ""

(* what a handler returns: the body with 200, or an HTTPException *)
Request(endpoint, id) == [endpoint |-> endpoint, id |-> id]
Ok(request, body) == [request |-> request, status_code |-> 200, body |-> body]
HTTPException(status_code, detail) ==
    [status_code |-> status_code, detail |-> detail]

(* `except Exception as e: raise HTTPException(500, detail=str(e))` around a
   handler body that raised e; the detail is kept as the exception itself *)
Caught(request, e) ==
    [request |-> request, status_code |-> 500, body |-> [detail |-> e]]

PlanNotFound == HTTPException(404, "Plan not found")

Document(p) ==
    p @@ [approved_by |-> None, approved_at |-> None, operator_notes |-> None,
          rejected_by |-> None, rejected_at |-> None,
          rejection_reason |-> None]

Approved(doc, operator_id, notes, clock) ==
    [doc EXCEPT !.status = "approved",
                !.approved_by = Some(operator_id),
                !.approved_at = Some(clock),
                !.operator_notes = IF TruthyString(notes) THEN notes ELSE @]

(* faulty variant: a rejected plan gives its allocations up *)
RejectedReleased(doc, operator_id, reason, clock) ==
    [doc EXCEPT !.status = "rejected",
                !.rejected_by = Some(operator_id),
                !.rejected_at = Some(clock),
                !.rejection_reason = Some(reason),
                !.cohort_allocations = <<>>]

Rejected(doc, operator_id, reason, clock) ==
    [doc EXCEPT !.status = "rejected",
                !.rejected_by = Some(operator_id),
                !.rejected_at = Some(clock),
                !.rejection_reason = Some(reason)]

(* f"SIG_{plan['id']}_{allocation['cohort_id']}" *)
SignalId(plan_id, cohort_id) == <<"SIG">> \o plan_id \o <<cohort_id>>

Signal(doc, allocation, clock) ==
    [id |-> SignalId(doc.id, allocation.cohort_id),
     plan_id |-> doc.id,
     cohort_id |-> allocation.cohort_id,
     signal_type |-> "dr_event",
     created_at |-> clock,
     sent_at |-> clock,
     event_start |-> doc.window_start,
     event_end |-> doc.window_end,
     target_reduction_kw |-> QMul(allocation.target_mw, QInt(1000)),
     message |-> allocation.message_template,
     status |-> "sent",
     response |-> None]

(* _create_signals: one file per allocation, the first n allocations *)
RECURSIVE CreateSignals(_, _, _, _)
CreateSignals(doc, clock, dir, n) ==
    IF n = 0 THEN dir
    ELSE LET signal == Signal(doc, doc.cohort_allocations[n], clock)
         IN  (signal.id :> signal) @@ CreateSignals(doc, clock, dir, n - 1)

(* propose_plan, lines 31-36: the plan is saved and the request ends *)
SavePlan ==
    /\ pc = "returned"
    /\ plans' = (Val(plan).id :> Document(Val(plan))) @@ plans
    /\ pc' = IdleLocals.pc
    /\ req' = IdleLocals.req
    /\ cohorts' = IdleLocals.cohorts
    /\ situation' = IdleLocals.situation
    /\ target_mw' = IdleLocals.target_mw
    /\ derived' = IdleLocals.derived
    /\ scored' = IdleLocals.scored
    /\ idx' = IdleLocals.idx
    /\ hours_notice' = IdleLocals.hours_notice
    /\ allocations' = IdleLocals.allocations
    /\ allocated_mw' = IdleLocals.allocated_mw
    /\ plan' = IdleLocals.plan
    /\ exc' = IdleLocals.exc
    /\ response' = Some(Ok(Request("propose", Val(plan).id), Val(plan)))
    /\ UNCHANGED <<files, now, other, signals>>

ApprovePlan(plan_id, operator_id, notes) ==
    /\ IF plan_id \notin DOMAIN plans
       THEN /\ response' = Some(Caught(Request("approve", plan_id), PlanNotFound))
            /\ UNCHANGED <<plans, signals>>
       ELSE LET doc == Approved(plans[plan_id], operator_id, notes, now)
            IN  /\ plans' = [plans EXCEPT ![plan_id] = doc]
                /\ signals' = CreateSignals(doc, now, signals,
                                            Len(doc.cohort_allocations))
                /\ response' =
                       Some(Ok(Request("approve", plan_id),
                               [plan_id |-> plan_id, status |-> "approved",
                                message |-> "Plan approved and signals dispatched",
                                predicted_mw |-> doc.predicted_mw_total]))
    /\ UNCHANGED <<files, now, other, frame>>

RejectPlan(plan_id, operator_id, reason) ==
    /\ IF plan_id \notin DOMAIN plans
       THEN /\ response' = Some(Caught(Request("reject", plan_id), PlanNotFound))
            /\ UNCHANGED plans
       ELSE /\ plans' = [plans EXCEPT ![plan_id] =
                            Rejected(@, operator_id, reason, now)]
            /\ response' =
                   Some(Ok(Request("reject", plan_id),
                           [plan_id |-> plan_id, status |-> "rejected",
                            message |-> "Plan rejected"]))
    /\ UNCHANGED <<files, now, other, signals, frame>>

GetPlan(plan_id) ==
    /\ response' = IF plan_id \notin DOMAIN plans
                   THEN Some(Caught(Request("get", plan_id), PlanNotFound))
                   ELSE Some(Ok(Request("get", plan_id), plans[plan_id]))
    /\ UNCHANGED <<files, now, other, plans, signals, frame>>

(* next((c for c in cohorts if c["id"] == cohort_id), None) *)
RECURSIVE FindCohort(_, _)
FindCohort(cs, cohort_id) ==
    IF cs = <<>> THEN None
    ELSE IF Head(cs).id = cohort_id THEN Some(Head(cs))
    ELSE FindCohort(Tail(cs), cohort_id)

(* int(x) of a non-negative x *)
Truncate(x) == x[1] \div x[2]

SignalNotFound == HTTPException(404, "Signal not found")
CohortNotFound == HTTPException(404, "Cohort not found")

CustomerResponse(signal_id, signal, cohort, clock) ==
    LET acceptance_rate == cohort.baseline_acceptance_rate
        participating_accounts ==
            Truncate(QMul(QInt(cohort.num_accounts), acceptance_rate))
        committed_kw == QMul(signal.target_reduction_kw, acceptance_rate)
    IN  [signal_id |-> signal_id,
         cohort_id |-> signal.cohort_id,
         responded_at |-> clock,
         accepted |-> TRUE,
         participating_accounts |-> participating_accounts,
         committed_kw |-> Round(committed_kw, 2),
         reason |-> None]

(* signals.py, simulate_response; cohorts.json is opened directly *)
SimulateResponse(signal_id) ==
    /\ LET request == Request("simulate-response", signal_id)
       IN  IF signal_id \notin DOMAIN signals
           THEN /\ response' = Some(Caught(request, SignalNotFound))
                /\ UNCHANGED signals
           ELSE LET signal == signals[signal_id]
                    found == FindCohort(Val(files.cohorts), signal.cohort_id)
                IN  IF IsNone(found)
                    THEN /\ response' = Some(Caught(request, CohortNotFound))
                         /\ UNCHANGED signals
                    ELSE LET answer == CustomerResponse(signal_id, signal,
                                                       Val(found), now)
                         IN  /\ signals' =
                                    [signals EXCEPT ![signal_id] =
                                        [@ EXCEPT !.status = "acknowledged",
                                                  !.response = Some(answer)]]
                             /\ response' = Some(Ok(request, answer))
    /\ UNCHANGED <<files, now, other, plans, frame>>

(* signals_dir.glob(f"{plan_id}_*.json") against the file name
   f"{signal id}.json": the name has to begin with the plan id *)
GlobMatches(name, plan_id) ==
    /\ Len(name) > Len(plan_id)
    /\ SubSeq(name, 1, Len(plan_id)) = plan_id

RECURSIVE SumCommittedMw(_)
SumCommittedMw(answers) ==
    IF answers = {} THEN QInt(0)
    ELSE LET r == CHOOSE x \in answers : TRUE
         IN  QAdd(QDivInt(r.committed_kw, 1000), SumCommittedMw(answers \ {r}))

GetPlanStatus(plan_id) ==
    /\ LET request == Request("status", plan_id)
       IN  IF plan_id \notin DOMAIN plans
           THEN response' = Some(Caught(request, HTTPException(500, PlanNotFound)))
           ELSE LET doc == plans[plan_id]
                    names == {n \in DOMAIN signals :
                                 /\ GlobMatches(n, plan_id)
                                 /\ ~IsNone(signals[n].response)}
                    responses == {Val(signals[n].response) : n \in names}
                    accepted == {r \in responses : r.accepted}
                IN  response' =
                        Some(Ok(request,
                                [plan_id |-> plan_id,
                                 status |-> doc.status,
                                 target_mw |-> doc.target_mw_total,
                                 predicted_mw |-> doc.predicted_mw_total,
                                 realized_mw |-> Round(SumCommittedMw(responses), 2),
                                 num_signals_sent |-> Len(doc.cohort_allocations),
                                 num_responses |-> Cardinality(names),
                                 acceptance_rate |->
                                     IF names # {}
                                     THEN Q(Cardinality(accepted), Cardinality(names))
                                     ELSE QInt(0)]))
    /\ UNCHANGED <<files, now, other, plans, signals, frame>>

SignalIds == {SignalId(plan_id, c.id) : plan_id \in PlanIds, c \in CohortPool}

LifecycleFiles == {f \in PairFiles : Val(f.cohorts)[1].id = "ev"}

LifecycleRequests ==
    [window_start : {ClockStart + 2}, window_end : {ClockStart + 4},
     aware : {TRUE}, strategy : {"balanced", "reliability"},
     target_mw : {Some(QInt(40))}, selected_cohorts : {None}]

InitLifecycle ==
    /\ files \in LifecycleFiles
    /\ InitCall

NextLifecycle ==
    \/ \E r \in LifecycleRequests : CreatePlan(r)
    \/ ScoreStep
    \/ ScoreSort
    \/ AllocateStep
    \/ Finish
    \/ SavePlan
    \/ \E plan_id \in PlanIds, operator_id \in Operators, notes \in NotesChoices :
           ApprovePlan(plan_id, operator_id, notes)
    \/ \E plan_id \in PlanIds, operator_id \in Operators, reason \in Reasons :
           RejectPlan(plan_id, operator_id, reason)
    \/ \E plan_id \in PlanIds : GetPlan(plan_id)
    \/ \E plan_id \in PlanIds : GetPlanStatus(plan_id)
    \/ \E signal_id \in SignalIds : SimulateResponse(signal_id)

SpecLifecycle == InitLifecycle /\ [][NextLifecycle]_vars

----------------------------------------------------------------------------
(* The scorer over a set of windows: inside the peak hours of a cohort,
   partly inside, outside, ending at an earlier hour than the start, and
   crossing midnight.  The lighting cohort has an acceptance rate with four
   decimals, which round(.., 3) does not keep. *)

CohortLighting ==
    [id |-> "light", name |-> "Retail lighting", segment |-> "commercial_lighting",
     num_accounts |-> 2000, flex_kw_per_account |-> QInt(50),
     peak_hours |-> {17, 18}, baseline_acceptance_rate |-> Q(9996, 10000),
     comfort_limit_f |-> 2, min_notice_hours |-> 1]

ScorerFiles ==
    [snapshot : {Some([system_load_mw |-> 72000, reserves_mw |-> 6000,
                       price_per_mwh |-> 60])},
     forecast : {Some([peak_load_mw |-> 76000, peak_hour |-> 18])},
     cohorts : {Some(<<CohortLighting>>), Some(<<CohortLighting, CohortEV>>),
                Some(<<CohortEV, CohortLighting>>)}]

ScorerRequests ==
    [window_start : {ClockStart + 2, ClockStart + 8},
     window_end : {ClockStart + 3, ClockStart + 4, ClockStart + 10},
     aware : {TRUE}, strategy : DRStrategy,
     target_mw : {Some(QInt(40))}, selected_cohorts : {None}]

InitScorer ==
    /\ files \in ScorerFiles
    /\ InitCall

NextScorer ==
    \/ \E r \in ScorerRequests : CreatePlan(r)
    \/ ScoreStep
    \/ ScoreSort
    \/ AllocateStep
    \/ Finish

SpecScorer == InitScorer /\ [][NextScorer]_vars

----------------------------------------------------------------------------
(* Properties *)

Returned == pc = "returned"
Finished == pc \in {"returned", "raised"}
ThePlan == Val(plan)
GridUnavailable == IsNone(files.snapshot) \/ IsNone(files.forecast)
RoundingEps == Q(1, 200)

(* C1: for a positive target the allocator's running total never exceeds the
   target, and the sum of the (rounded) target_mw of a returned plan is at
   most target_mw_total plus half a hundredth per allocation. *)
C1_AllocatedWithinTarget ==
    /\ (pc \in {"allocate", "returned"} /\ QLt(QInt(0), Val(target_mw)))
           => QLe(allocated_mw, Val(target_mw))
    /\ (Returned /\ QLt(QInt(0), ThePlan.target_mw_total))
           => QLe(QSum(Column(ThePlan.cohort_allocations, "target_mw")),
                  QAdd(ThePlan.target_mw_total,
                       QMul(QInt(Len(ThePlan.cohort_allocations)), RoundingEps)))

(* a plan of two allocations whose running total reached the target exactly *)
C1_Witness ==
    /\ Returned
    /\ Len(ThePlan.cohort_allocations) = 2
    /\ allocated_mw = ThePlan.target_mw_total
    /\ QLt(scored[1].available_mw, ThePlan.target_mw_total)

(* C2: every allocation has predicted_mw <= target_mw (acceptance rates of
   the catalog are in [0,1]). *)
C2_PredictedAtMostTarget ==
    \A i \in 1..Len(allocations) :
        QLe(allocations[i].predicted_mw, allocations[i].target_mw)

(* an allocation of a cohort with acceptance below 1 and a positive target *)
C2_Witness ==
    /\ Returned
    /\ \E i \in 1..Len(ThePlan.cohort_allocations) :
           LET a == ThePlan.cohort_allocations[i]
           IN  /\ QLt(QInt(0), a.predicted_mw)
               /\ QLt(a.predicted_mw, a.target_mw)
               /\ a.target_mw # scored[i].available_mw

(* C3: under the balanced strategy no allocation's target_mw exceeds 30% of
   target_mw_total (up to rounding); under the other strategies the first
   ranked cohort receives min(available, target), with no cap. *)
C3_BalancedCap ==
    pc \in {"allocate", "returned"} =>
        /\ Val(req).strategy = "balanced" =>
               \A i \in 1..Len(allocations) :
                   QLe(allocations[i].target_mw,
                       QAdd(QMul(Val(target_mw), Q(3, 10)), RoundingEps))
        /\ (Val(req).strategy # "balanced" /\ Len(allocations) >= 1) =>
               allocations[1].target_mw =
                   Round(QMin(scored[1].available_mw, Val(target_mw)), 2)

(* a balanced plan in which the cap, not the availability, decided an amount *)
C3_Witness ==
    /\ Returned
    /\ ThePlan.strategy = "balanced"
    /\ \E i \in 1..Len(ThePlan.cohort_allocations) :
           /\ ThePlan.cohort_allocations[i].target_mw =
                  QMul(ThePlan.target_mw_total, Q(3, 10))
           /\ QLt(QMul(ThePlan.target_mw_total, Q(3, 10)), scored[i].available_mw)

ScoredIds == {scored[k].cohort.id : k \in 1..Len(scored)}

(* C4: hours_notice is window_start minus a clock reading taken during the
   call; a checked cohort is in the scored list exactly when its
   min_notice_hours is at most the hours_notice read for it; an allocation
   is only ever given to such a cohort. *)
C4_NoticeFilter ==
    pc \in {"score", "allocate", "returned"} =>
        /\ \A i \in 1..Len(hours_notice) :
               /\ hours_notice[i] <= Val(req).window_start - ClockStart
               /\ hours_notice[i] >= Val(req).window_start - now
               /\ (cohorts[i].id \in ScoredIds)
                      <=> (cohorts[i].min_notice_hours <= hours_notice[i])
        /\ \A k \in 1..Len(allocations) :
               \E i \in 1..Len(hours_notice) :
                   /\ cohorts[i].id = allocations[k].cohort_id
                   /\ cohorts[i].min_notice_hours <= hours_notice[i]

(* one cohort skipped for short notice, another kept with exactly its notice *)
C4_Witness ==
    /\ Returned
    /\ \E i, j \in 1..Len(hours_notice) :
           /\ hours_notice[i] < cohorts[i].min_notice_hours
           /\ hours_notice[j] = cohorts[j].min_notice_hours
           /\ \E k \in 1..Len(ThePlan.cohort_allocations) :
                  ThePlan.cohort_allocations[k].cohort_id = cohorts[j].id

(* C5: the confidence score of a plan is in [0,1] and is 0 exactly when the
   plan has no allocations. *)
C5_ConfidenceRange ==
    Returned =>
        /\ QLe(QInt(0), ThePlan.confidence_score)
        /\ QLe(ThePlan.confidence_score, QInt(1))
        /\ (ThePlan.confidence_score = QInt(0))
               <=> (ThePlan.cohort_allocations = <<>>)

(* a plan under critical stress whose allocations all have acceptance
   probability 0: the lowest confidence a non-empty plan can get *)
C5_Witness ==
    /\ Returned
    /\ ThePlan.cohort_allocations # <<>>
    /\ ThePlan.situation_summary.stress_level = "critical"
    /\ \A i \in 1..Len(ThePlan.cohort_allocations) :
           ThePlan.cohort_allocations[i].acceptance_probability = QInt(0)
    /\ ThePlan.confidence_score = Q(42, 100)

(* C6: create_plan never raises; it returns a plan with status "proposed"
   and a non-empty explanation, also when the grid data is unavailable. *)
C6_AlwaysReturnsPlan ==
    /\ pc # "raised"
    /\ Returned => /\ ThePlan.status = "proposed"
                   /\ ThePlan.explanation # <<>>

(* C7: when the grid data source reports an error the analyzer yields no
   situation, the target derivation is not run, and a plan exists only if
   the caller supplied an explicit target_mw. *)
C7_NoDerivedTargetWithoutGridData ==
    (GridUnavailable /\ pc # "idle") =>
        /\ IsNone(situation)
        /\ ~derived
        /\ ~IsNone(plan) => TruthyNumber(Val(req).target_mw)

(* grid data unavailable, an explicit target supplied, the call has ended *)
C7_Witness ==
    /\ GridUnavailable
    /\ Finished
    /\ TruthyNumber(Val(req).target_mw)
    /\ exc = Some("KeyError")

ScorerReturnedEmpty == Len(hours_notice) = Len(cohorts) /\ scored = <<>>

(* C8: with grid data available, an empty list returned by the scorer (every
   cohort of the filtered catalog was checked and none kept) gives a plan
   with no allocations, predicted_mw_total 0, confidence 0.0 and status
   "proposed"; create_plan does not raise. *)
C8_EmptyScoredListGivesEmptyPlan ==
    (~GridUnavailable /\ Finished /\ ScorerReturnedEmpty) =>
        /\ Returned
        /\ ThePlan.cohort_allocations = <<>>
        /\ ThePlan.predicted_mw_total = QInt(0)
        /\ ThePlan.confidence_score = QInt(0)
        /\ ThePlan.status = "proposed"

(* C9: with an explicit target_mw (0 included) the plan's target_mw_total is
   that value and the derivation is not used. *)
C9_ExplicitTargetKept ==
    (Returned /\ ~IsNone(Val(req).target_mw)) =>
        /\ ThePlan.target_mw_total = Val(Val(req).target_mw)
        /\ ~derived

(* C10: with an allow-list supplied (the empty list included) every
   allocation's cohort_id is a member of the list. *)
C10_AllocationsWithinAllowList ==
    (Returned /\ ~IsNone(Val(req).selected_cohorts)) =>
        \A i \in 1..Len(ThePlan.cohort_allocations) :
            InList(ThePlan.cohort_allocations[i].cohort_id,
                   Val(Val(req).selected_cohorts))

----------------------------------------------------------------------------
(* Properties of the analyzer and the target derivation (SpecGrid) *)

Analyzed == pc # "idle" /\ ~IsNone(situation)
TheSnapshot == Val(files.snapshot)
StressLevel == Val(situation).stress_level
Severity(level) ==
    IF level = "low" THEN 0 ELSE IF level = "moderate" THEN 1
    ELSE IF level = "high" THEN 2 ELSE 3

(* C11: the stress level is critical iff reserves < 5000 or load > 75000;
   otherwise high iff reserves < 10000 or load > 70000; otherwise moderate
   iff reserves < 15000 or load > 65000; otherwise low.  A snapshot exactly
   on a pair of thresholds is in the less severe class. *)
C11_StressCascade ==
    Analyzed =>
        LET l == TheSnapshot.system_load_mw
            r == TheSnapshot.reserves_mw
            crit == r < 5000 \/ l > 75000
            high == r < 10000 \/ l > 70000
            mod == r < 15000 \/ l > 65000
        IN  /\ (StressLevel = "critical") <=> crit
            /\ (StressLevel = "high") <=> (~crit /\ high)
            /\ (StressLevel = "moderate") <=> (~crit /\ ~high /\ mod)
            /\ (StressLevel = "low") <=> (~crit /\ ~high /\ ~mod)
            /\ (r = 5000 /\ l = 75000) => StressLevel = "high"
            /\ (r = 10000 /\ l = 70000) => StressLevel = "moderate"
            /\ (r = 15000 /\ l = 65000) => StressLevel = "low"

(* reserves exactly 5000 and load exactly 75000 were classified "high" *)
C11_Witness ==
    /\ Analyzed
    /\ TheSnapshot.reserves_mw = 5000
    /\ TheSnapshot.system_load_mw = 75000
    /\ StressLevel = "high"

(* C12: a snapshot with reserves no higher and load no lower than the
   analyzed one is classified at least as severe (low < moderate < high <
   critical). *)
C12_StressMonotonic ==
    Analyzed =>
        \A g \in GridSnapshots :
            (/\ g.reserves_mw <= TheSnapshot.reserves_mw
             /\ g.system_load_mw >= TheSnapshot.system_load_mw)
                => Severity(CalculateStressLevel(g, Val(files.forecast)))
                       >= Severity(StressLevel)

(* a moderate snapshot was analyzed, and the grid holds a strictly more
   stressed snapshot that is classified "critical" *)
C12_Witness ==
    /\ Analyzed
    /\ StressLevel = "moderate"
    /\ \E g \in GridSnapshots :
           /\ g.reserves_mw < TheSnapshot.reserves_mw
           /\ g.system_load_mw > TheSnapshot.system_load_mw
           /\ CalculateStressLevel(g, Val(files.forecast)) = "critical"

NoExplicitTarget == pc \notin {"idle", "raised"} /\ IsNone(Val(req).target_mw)

(* C13: with no explicit target, reliability gives 125 under critical stress,
   100 under high, 75 otherwise; cost_minimize gives 100 for price > 100, 75
   for 50 < price <= 100, 50 otherwise; balanced gives 75.  Snapshot {load
   72000, reserves 6000, price 60} with reliability gives stress high and
   target 100.  A returned plan carries that target. *)
C13_DerivedTargetTable ==
    NoExplicitTarget =>
        LET strategy == Val(req).strategy
            price == TheSnapshot.price_per_mwh
            t == Val(target_mw)
        IN  /\ strategy = "reliability" =>
                   t = IF StressLevel = "critical" THEN QInt(125)
                       ELSE IF StressLevel = "high" THEN QInt(100)
                       ELSE QInt(75)
            /\ strategy = "cost_minimize" =>
                   t = IF price > 100 THEN QInt(100)
                       ELSE IF price > 50 THEN QInt(75)
                       ELSE QInt(50)
            /\ strategy = "balanced" => t = QInt(75)
            /\ (/\ strategy = "reliability"
                /\ TheSnapshot.system_load_mw = 72000
                /\ TheSnapshot.reserves_mw = 6000
                /\ price = 60) => (StressLevel = "high" /\ t = QInt(100))
            /\ Returned => ThePlan.target_mw_total = t

(* the example snapshot planned with reliability: stress high, target 100 *)
C13_Witness ==
    /\ Returned
    /\ IsNone(Val(req).target_mw)
    /\ Val(req).strategy = "reliability"
    /\ TheSnapshot = [system_load_mw |-> 72000, reserves_mw |-> 6000,
                      price_per_mwh |-> 60]
    /\ StressLevel = "high"
    /\ ThePlan.target_mw_total = QInt(100)

(* C14: with the emergency strategy and no explicit target the derived
   target is 150 whatever the stress level and the price. *)
C14_EmergencyTarget ==
    (NoExplicitTarget /\ Val(req).strategy = "emergency") =>
        /\ Val(target_mw) = QInt(150)
        /\ Returned => ThePlan.target_mw_total = QInt(150)

(* an emergency plan under low stress and the lowest price *)
C14_Witness ==
    /\ Returned
    /\ IsNone(Val(req).target_mw)
    /\ Val(req).strategy = "emergency"
    /\ StressLevel = "low"
    /\ TheSnapshot.price_per_mwh = 45
    /\ ThePlan.target_mw_total = QInt(150)

----------------------------------------------------------------------------
(* Properties of the scorer's order, the allocator's loop, and the frame *)

Ranked == pc \in {"allocate", "returned"}
PositionIn(cs, id) == CHOOSE i \in 1..Len(cs) : cs[i].id = id

(* C19: the list returned by the scorer is in descending score order, and
   two cohorts of equal score are in the order of the input catalog. *)
C19_SortedStable ==
    Ranked =>
        \A i, j \in 1..Len(scored) :
            i < j =>
                /\ QLe(scored[j].score, scored[i].score)
                /\ scored[i].score = scored[j].score =>
                       PositionIn(cohorts, scored[i].cohort.id)
                           < PositionIn(cohorts, scored[j].cohort.id)

(* two cohorts of equal score, the commercial one first in the catalog *)
C19_Witness ==
    /\ Returned
    /\ Len(scored) = 2
    /\ scored[1].score = scored[2].score
    /\ scored[1].cohort.id = "hvac"
    /\ cohorts[1].id = "hvac"

(* C20: each allocation is appended for the next cohort of the ranked list
   and only while the running total is below the target, so the allocations
   follow a prefix of the ranked list; when a ranked cohort is left out of
   the returned plan, the running total had reached the target. *)
C20_PrefixUntilTarget ==
    /\ [](Ranked =>
            /\ Len(allocations) <= Len(scored)
            /\ \A k \in 1..Len(allocations) :
                   allocations[k].cohort_id = scored[k].cohort.id
            /\ (Returned /\ Len(allocations) < Len(scored))
                   => QLe(Val(target_mw), allocated_mw))
    /\ [][(pc = "allocate" /\ allocations' # allocations) =>
              /\ QLt(allocated_mw, Val(target_mw))
              /\ Len(allocations') = Len(allocations) + 1
              /\ SubSeq(allocations', 1, Len(allocations)) = allocations]_vars

(* the target was reached by the first ranked cohort; the second is left out *)
C20_Witness ==
    /\ Returned
    /\ Len(scored) = 2
    /\ Len(ThePlan.cohort_allocations) = 1
    /\ allocated_mw = ThePlan.target_mw_total

CatalogRecords == {cohorts[i] : i \in 1..Len(cohorts)}

(* C17: during and after create_plan the cohort list is the catalog as
   loaded (and filtered), every scored entry refers to one of its records
   unchanged, and the catalog file is never written. *)
C17_CohortsNotMutated ==
    /\ [](pc # "idle" =>
            /\ cohorts = SelectCohorts(LoadCohorts(files),
                                       Val(req).selected_cohorts)
            /\ \A k \in 1..Len(scored) : scored[k].cohort \in CatalogRecords)
    /\ [][files' = files]_vars

(* a plan with allocations and messages was returned *)
C17_Witness ==
    /\ Returned
    /\ Len(ThePlan.cohort_allocations) = 2
    /\ cohorts = Val(files.cohorts)
    /\ \A k \in 1..2 : ThePlan.cohort_allocations[k].message_template.template
                            = scored[k].cohort.segment

----------------------------------------------------------------------------
(* Properties of two invocations (SpecPair) *)

Invocations == {Locals, other}

Outcome(p) ==
    [cohort_allocations |-> p.cohort_allocations,
     target_mw_total |-> p.target_mw_total,
     confidence_score |-> p.confidence_score]

Figures(p) ==
    [cohort_id |-> Column(p.cohort_allocations, "cohort_id"),
     target_mw |-> Column(p.cohort_allocations, "target_mw"),
     predicted_mw |-> Column(p.cohort_allocations, "predicted_mw"),
     acceptance_probability |->
         Column(p.cohort_allocations, "acceptance_probability"),
     target_mw_total |-> p.target_mw_total,
     confidence_score |-> p.confidence_score]

(* C15: two invocations that were given the same arguments and read the
   same clock values (the data files are common) return plans with the same
   cohort order, the same per-cohort figures, the same target_mw_total and
   the same confidence_score. *)
C15_Deterministic ==
    (/\ pc = "returned" /\ other.pc = "returned"
     /\ req = other.req
     /\ hours_notice = other.hours_notice)
        => Figures(Val(plan)) = Figures(Val(other.plan))

(* two equal calls returned two-cohort plans that differ in created_at *)
C15_Witness ==
    /\ pc = "returned" /\ other.pc = "returned"
    /\ req = other.req
    /\ hours_notice = other.hours_notice
    /\ Len(Val(plan).cohort_allocations) = 2
    /\ Val(plan).created_at # Val(other.plan).created_at

(* C16: under every interleaving of two invocations, each returns the
   allocations, target and confidence that create_plan computes from that
   invocation's own arguments and clock readings when run alone. *)
C16_SameAsAlone ==
    \A inv \in Invocations :
        inv.pc = "returned" =>
            Outcome(Val(inv.plan))
                = CreatePlanAlone(files, Val(inv.req), inv.hours_notice)

(* two different requests returned different allocations; both read the
   clock before it advanced and both finished after, so they overlapped *)
C16_Witness ==
    /\ pc = "returned" /\ other.pc = "returned"
    /\ Val(req).strategy # Val(other.req).strategy
    /\ Len(Val(plan).cohort_allocations) = 2
    /\ Len(Val(other.plan).cohort_allocations) = 1
    /\ hours_notice[1] = HoursNotice(Val(req).window_start, ClockStart)
    /\ other.hours_notice[1] = HoursNotice(Val(other.req).window_start, ClockStart)
    /\ Val(plan).created_at = ClockStart + 1
    /\ Val(other.plan).created_at = ClockStart + 1

----------------------------------------------------------------------------
(* Properties of the stored plans (SpecLifecycle) *)

WrittenKeys ==
    {"status", "approved_by", "approved_at", "operator_notes",
     "rejected_by", "rejected_at", "rejection_reason"}

ApproveOrReject ==
    \/ \E plan_id \in PlanIds, operator_id \in Operators, notes \in NotesChoices :
           ApprovePlan(plan_id, operator_id, notes)
    \/ \E plan_id \in PlanIds, operator_id \in Operators, reason \in Reasons :
           RejectPlan(plan_id, operator_id, reason)

(* C18: a step of approve or reject keeps the set of stored plans and, in
   every stored plan, every key other than status and the approval and
   rejection metadata: cohort_allocations, target_mw_total,
   predicted_mw_total, confidence_score, strategy and the window among them. *)
C18_ContentKept ==
    [][ApproveOrReject =>
          /\ DOMAIN plans' = DOMAIN plans
          /\ \A id \in DOMAIN plans :
                 \A key \in (DOMAIN plans[id]) \ WrittenKeys :
                     plans'[id][key] = plans[id][key]]_vars

(* a stored plan with two allocations was approved and then rejected *)
C18_Witness ==
    \E id \in DOMAIN plans :
        /\ plans[id].status = "rejected"
        /\ plans[id].approved_by = Some("alice")
        /\ plans[id].operator_notes = Some("ok")
        /\ Len(plans[id].cohort_allocations) = 2

----------------------------------------------------------------------------
(* Properties of the situation summary *)

PeakHour == Get(Val(files.forecast), "peak_hour", 17)

(* C21: window_overlaps_peak is true exactly when the forecast peak hour
   (17 when the forecast has none) lies between the hour of window_start and
   the hour of window_end, both included; it is false whenever the end hour
   is below the start hour. *)
C21_WindowOverlapsPeak ==
    Analyzed =>
        LET ws == Hour(Val(req).window_start)
            we == Hour(Val(req).window_end)
            overlaps == Val(situation).window_overlaps_peak
        IN  /\ overlaps <=> (ws <= PeakHour /\ PeakHour <= we)
            /\ we < ws => ~overlaps

(* the peak hour is the last hour of the window, and the flag is set *)
C21_Witness ==
    /\ Analyzed
    /\ "peak_hour" \in DOMAIN Val(files.forecast)
    /\ PeakHour = Hour(Val(req).window_end)
    /\ Hour(Val(req).window_start) < PeakHour
    /\ Val(situation).window_overlaps_peak

(* C22: when the snapshot and the forecast files exist the analyzer returns
   a summary whatever fields they lack; a missing field is reported as load
   65000, price 45, reserves 15000, forecast peak 72000, peak hour 17; the
   stress level follows from the reported load and reserves, and is low when
   the snapshot has no field at all. *)
C22_FallbackConstants ==
    (pc # "idle" /\ ~GridUnavailable) =>
        /\ ~IsNone(situation)
        /\ LET sit == Val(situation)
               snapshot == Val(files.snapshot)
               forecast == Val(files.forecast)
               load == sit.current_load_mw
               reserves == sit.reserves_mw
           IN  /\ "system_load_mw" \notin DOMAIN snapshot => load = 65000
               /\ "price_per_mwh" \notin DOMAIN snapshot => sit.current_price = 45
               /\ "reserves_mw" \notin DOMAIN snapshot => reserves = 15000
               /\ "peak_load_mw" \notin DOMAIN forecast => sit.forecast_peak_mw = 72000
               /\ "peak_hour" \notin DOMAIN forecast => sit.forecast_peak_hour = 17
               /\ \A k \in DOMAIN snapshot :
                      /\ k = "system_load_mw" => load = snapshot[k]
                      /\ k = "price_per_mwh" => sit.current_price = snapshot[k]
                      /\ k = "reserves_mw" => reserves = snapshot[k]
               /\ DOMAIN snapshot = {} => sit.stress_level = "low"
               /\ sit.stress_level =
                      IF reserves < 5000 \/ load > 75000 THEN "critical"
                      ELSE IF reserves < 10000 \/ load > 70000 THEN "high"
                      ELSE IF reserves < 15000 \/ load > 65000 THEN "moderate"
                      ELSE "low"

(* a snapshot and a forecast without any field gave a low-stress summary *)
C22_Witness ==
    /\ pc # "idle" /\ ~GridUnavailable
    /\ DOMAIN Val(files.snapshot) = {}
    /\ DOMAIN Val(files.forecast) = {}
    /\ ~IsNone(situation)
    /\ Val(situation).stress_level = "low"
    /\ Val(situation).forecast_peak_mw = 72000

----------------------------------------------------------------------------
(* Properties of the greedy fill *)

(* the available MW of each scored cohort, capped at 30% of the target for
   the balanced strategy *)
CappedAvailable ==
    [i \in 1..Len(scored) |->
        IF Val(req).strategy = "balanced"
        THEN QMin(scored[i].available_mw, QMul(Val(target_mw), BalancedShare))
        ELSE scored[i].available_mw]

(* C23: the total allocated by a finished allocator equals the smaller of
   the target and the sum of the (capped) available MW of the scored
   cohorts. *)
C23_GreedyFill ==
    Returned => allocated_mw = QMin(Val(target_mw), QSum(CappedAvailable))

(* C23 as amended: each allocation is the smaller of the cohort's (capped)
   available MW and the target minus the total so far, and is stored rounded
   to two decimals; the total of a finished allocator is 0 for a negative
   target and otherwise the smaller of the target and the sum of the
   (capped) available MW. *)
C23_GreedyFillNonNegative ==
    /\ [](Returned =>
            allocated_mw = IF QLt(Val(target_mw), QInt(0)) THEN QInt(0)
                           ELSE QMin(Val(target_mw), QSum(CappedAvailable)))
    /\ [][(pc = "allocate" /\ allocations' # allocations) =>
              LET allocate == QMin(CappedAvailable[idx],
                                   QSub(Val(target_mw), allocated_mw))
              IN  /\ allocated_mw' = QAdd(allocated_mw, allocate)
                  /\ allocations'[Len(allocations')].target_mw
                         = Round(allocate, 2)]_vars

(* a balanced plan: both cohorts capped, the target not met *)
C23_Witness ==
    /\ Returned
    /\ Val(req).strategy = "balanced"
    /\ Len(allocations) = 2
    /\ QLt(scored[1].available_mw, scored[2].available_mw)
    /\ allocated_mw = QSum(CappedAvailable)
    /\ QLt(allocated_mw, Val(target_mw))

----------------------------------------------------------------------------
(* Properties of the scorer's estimate (SpecScorer) *)

(* the share of the hours from the start hour to the end hour of the window
   that are peak hours of the cohort; 0 when there is no such hour *)
AlignmentFraction(cohort) ==
    LET hours == {h \in 0..23 : /\ Hour(Val(req).window_start) <= h
                                /\ h <= Hour(Val(req).window_end)}
    IN  IF hours = {} THEN QInt(0)
        ELSE Q(Cardinality(hours \cap cohort.peak_hours), Cardinality(hours))

FlexibleMw(cohort) ==
    Q(cohort.num_accounts * cohort.flex_kw_per_account[1],
      1000 * cohort.flex_kw_per_account[2])

RoundingEps3 == Q(1, 2000)

(* C24: the available MW of every scored cohort is flex_mw x alignment
   fraction x acceptance rate and is at most flex_mw, and the
   acceptance_probability of every allocation is at most the acceptance rate
   of its cohort. *)
C24_AvailableAndProbability ==
    Ranked =>
        /\ \A k \in 1..Len(scored) :
               LET cohort == scored[k].cohort
               IN  /\ scored[k].available_mw
                          = QMul(QMul(FlexibleMw(cohort), AlignmentFraction(cohort)),
                                 cohort.baseline_acceptance_rate)
                   /\ QLe(scored[k].available_mw, FlexibleMw(cohort))
        /\ \A k \in 1..Len(allocations) :
               QLe(allocations[k].acceptance_probability,
                   scored[k].cohort.baseline_acceptance_rate)

(* C24 as amended: as above, with acceptance_probability being acceptance
   rate x alignment fraction rounded to three decimals, which is at most the
   acceptance rate plus 0.0005. *)
C24_AvailableAndRoundedProbability ==
    Ranked =>
        /\ \A k \in 1..Len(scored) :
               LET cohort == scored[k].cohort
               IN  /\ scored[k].available_mw
                          = QMul(QMul(FlexibleMw(cohort), AlignmentFraction(cohort)),
                                 cohort.baseline_acceptance_rate)
                   /\ QLe(scored[k].available_mw, FlexibleMw(cohort))
        /\ \A k \in 1..Len(allocations) :
               LET cohort == scored[k].cohort
                   product == QMul(cohort.baseline_acceptance_rate,
                                   AlignmentFraction(cohort))
               IN  /\ QLe(product, cohort.baseline_acceptance_rate)
                   /\ allocations[k].acceptance_probability = Round(product, 3)
                   /\ QLe(allocations[k].acceptance_probability,
                          QAdd(cohort.baseline_acceptance_rate, RoundingEps3))

(* the window lies inside the peak hours of the lighting cohort, whose
   acceptance rate 0.9996 is reported as 1.0 *)
C24_Witness ==
    /\ Returned
    /\ Len(allocations) >= 1
    /\ scored[1].cohort.id = "light"
    /\ AlignmentFraction(scored[1].cohort) = QInt(1)
    /\ allocations[1].acceptance_probability = QInt(1)
    /\ scored[1].available_mw = Q(9996, 100)

(* C28: every allocation of a plan has target_mw > 0; a scored cohort whose
   available MW is 0 gets no allocation. *)
C28_PositiveAllocations ==
    Ranked =>
        \A k \in 1..Len(allocations) :
            /\ QLt(QInt(0), allocations[k].target_mw)
            /\ QLt(QInt(0), scored[k].available_mw)

----------------------------------------------------------------------------
(* Properties of the plan lifecycle (SpecLifecycle) *)

(* C25: propose stores a plan with status proposed, and approve and reject
   change the status of a stored plan only when it is proposed; an approved
   plan is never rejected afterwards nor a rejected one approved. *)
C25_StatusTransitions ==
    [][/\ SavePlan => plans'[Val(plan).id].status = "proposed"
       /\ ApproveOrReject =>
              \A id \in DOMAIN plans :
                  plans'[id].status # plans[id].status
                      => plans[id].status = "proposed"]_vars

(* C29: a proposal is stored under an id no stored plan has, and every plan
   stored before keeps its file and its content. *)
C29_OwnIdentifier ==
    [][SavePlan =>
          /\ Val(plan).id \notin DOMAIN plans
          /\ \A id \in DOMAIN plans :
                 /\ id \in DOMAIN plans'
                 /\ \A key \in (DOMAIN plans[id]) \ WrittenKeys :
                        plans'[id][key] = plans[id][key]]_vars

OnMissingPlan ==
    \E plan_id \in PlanIds \ DOMAIN plans :
        \/ \E operator_id \in Operators, notes \in NotesChoices :
               ApprovePlan(plan_id, operator_id, notes)
        \/ \E operator_id \in Operators, reason \in Reasons :
               RejectPlan(plan_id, operator_id, reason)
        \/ GetPlan(plan_id)

(* C30: approve, reject and get of an id with no stored plan answer 404
   "Plan not found" and leave the plan files and the signal files as they
   were. *)
C30_NotFound ==
    [][OnMissingPlan =>
          /\ UNCHANGED <<plans, signals>>
          /\ Val(response').status_code = 404
          /\ Val(response').body = [detail |-> "Plan not found"]]_vars

(* the signals of a plan that hold a customer response *)
Answered(plan_id) ==
    {n \in DOMAIN signals :
        signals[n].plan_id = plan_id /\ ~IsNone(signals[n].response)}

(* C27: a status report of a plan counts the signals of that plan that hold
   a response, and its realized_mw is the sum of their committed_kw / 1000
   (to two decimals). *)
C27_StatusReflectsResponses ==
    (/\ ~IsNone(response)
     /\ Val(response).request.endpoint = "status"
     /\ Val(response).status_code = 200)
        => LET plan_id == Val(response).request.id
               answers == {Val(signals[n].response) : n \in Answered(plan_id)}
           IN  /\ Val(response).body.num_responses
                      = Cardinality(Answered(plan_id))
               /\ Val(response).body.realized_mw
                      = Round(SumCommittedMw(answers), 2)

PlanOperation ==
    \/ SavePlan
    \/ ApproveOrReject
    \/ \E plan_id \in PlanIds : GetPlan(plan_id) \/ GetPlanStatus(plan_id)

(* C26: approving a stored plan leaves, for each of its allocations, one
   signal with status sent, the plan's id, the allocation's cohort_id and
   target_reduction_kw = target_mw x 1000, and no other new signal; every
   stored signal belongs to a stored plan whose status is approved; a
   response held by a signal is kept by every operation on a plan. *)
C26_SignalsOfApprovedPlans ==
    /\ [](\A n \in DOMAIN signals :
             /\ signals[n].plan_id \in DOMAIN plans
             /\ plans[signals[n].plan_id].status = "approved")
    /\ [][\A plan_id \in DOMAIN plans :
             (\E operator_id \in Operators, notes \in NotesChoices :
                 ApprovePlan(plan_id, operator_id, notes))
             => LET allocs == plans[plan_id].cohort_allocations
                    made == {SignalId(plan_id, allocs[k].cohort_id) :
                                k \in 1..Len(allocs)}
                IN  /\ Cardinality(made) = Len(allocs)
                    /\ DOMAIN signals' = DOMAIN signals \cup made
                    /\ \A k \in 1..Len(allocs) :
                           LET signal ==
                                   signals'[SignalId(plan_id, allocs[k].cohort_id)]
                           IN  /\ signal.status = "sent"
                               /\ signal.plan_id = plan_id
                               /\ signal.cohort_id = allocs[k].cohort_id
                               /\ signal.target_reduction_kw
                                      = QMul(allocs[k].target_mw, QInt(1000))]_vars
    /\ [][PlanOperation =>
             \A n \in DOMAIN signals :
                 ~IsNone(signals[n].response)
                     => /\ n \in DOMAIN signals'
                        /\ signals'[n].response = signals[n].response]_vars

=============================================================================
